---------------------------- MODULE Spec2Model ----------------------------
(***************************************************************************)
(* Model of the Filmigo REST API (src/main.go): a gin engine with a CORS   *)
(* middleware and four route handlers in front of three movie-data         *)
(* clients.  Strings the code inspects (identifiers, path segments, the    *)
(* query value, the API key) are sequences of one-character strings, so    *)
(* that strings.HasPrefix and the router's matching are computed.  Every   *)
(* connection is served by its own goroutine; the only point at which a    *)
(* handler can be interleaved with another is its blocking backend call.   *)
(***************************************************************************)
EXTENDS Naturals, Sequences, FiniteSets

\* Number of connections served concurrently (one goroutine each).
MaxConns == 2

Conns == 1..MaxConns

(***************************************************************************)
(* State.                                                                  *)
(*   omdbKey  the environment's OMDB_API_KEY ("" when unset)               *)
(*   api      the MovieAPI struct: the three client handles                *)
(* and per connection                                                      *)
(*   pc       "idle", "recv" (request read), "call" (the handler waits for *)
(*            a backend client), "done" (response written)                 *)
(*   req      the request                                                  *)
(*   ran      the handlers of the chain that ran, in order                 *)
(*   calls    the backend calls made for the request                       *)
(*   result   what the backend call returned                               *)
(*   status, body   the response                                           *)
(***************************************************************************)
VARIABLES omdbKey, api, pc, req, ran, calls, result, status, body

vars == <<omdbKey, api, pc, req, ran, calls, result, status, body>>

(***************************************************************************)
(* String literals of the program.                                         *)
(***************************************************************************)
tt        == <<"t", "t">>
ApiSeg    == <<"a", "p", "i">>
V1Seg     == <<"v", "1">>
HealthSeg == <<"h", "e", "a", "l", "t", "h">>
MoviesSeg == <<"m", "o", "v", "i", "e", "s">>
SearchSeg == <<"s", "e", "a", "r", "c", "h">>
OmdbSeg   == <<"o", "m", "d", "b">>

\* strings.HasPrefix(s, prefix)
HasPrefix(s, prefix) ==
    /\ Len(s) >= Len(prefix)
    /\ SubSeq(s, 1, Len(prefix)) = prefix

(***************************************************************************)
(* The requests the clients send.  A path is its sequence of segments      *)
(* ("/" is the empty sequence); hasQ tells whether the query string        *)
(* carries a q parameter and q is its value.                               *)
(***************************************************************************)
\* Identifiers: empty, shorter than the prefix, the prefix itself, prefixed,
\* wrong case, the prefix in a later position, and the word "search" with a
\* proper prefix of it.
IdSegs ==
    { <<"t">>, tt, <<"t", "t", "1">>, <<"T", "T", "1">>, <<"x", "t", "t">>,
      <<"s", "e", "a">> }

AllIds == IdSegs \cup {<<>>, SearchSeg, <<"t", "x">>, <<"t", "t", "t">>}

OmdbIdSegs == { <<"t", "t", "1">>, <<"x">>, SearchSeg }

Queries == { <<>>, <<"i", "n">> }

RootPath      == <<>>
HealthPath    == <<ApiSeg, V1Seg, HealthSeg>>
SearchPath    == <<ApiSeg, V1Seg, MoviesSeg, SearchSeg>>
MoviePath(id) == <<ApiSeg, V1Seg, MoviesSeg, id>>
OmdbPath(id)  == <<ApiSeg, V1Seg, OmdbSeg, id>>
UnknownPath   == <<ApiSeg, V1Seg>>

Req(m, p, h, qv) == [method |-> m, path |-> p, hasQ |-> h, q |-> qv]

Requests ==
    { Req("GET", p, FALSE, <<>>) :
        p \in {RootPath, HealthPath, UnknownPath}
              \cup { MoviePath(id) : id \in IdSegs }
              \cup { OmdbPath(id) : id \in OmdbIdSegs } }
    \cup { Req("GET", SearchPath, FALSE, <<>>) }
    \cup { Req("GET", SearchPath, TRUE, qv) : qv \in Queries }
    \cup { Req("OPTIONS", p, FALSE, <<>>) :
             p \in {RootPath, MoviePath(<<"t", "t", "1">>), SearchPath,
                    OmdbPath(<<"x">>), UnknownPath} }
    \cup { Req("POST", p, FALSE, <<>>) :
             p \in {HealthPath, MoviePath(<<"t", "t", "1">>)} }

NoReq == Req("", <<>>, FALSE, <<>>)


(***************************************************************************)
(* The router: main registers five GET routes on a gin engine.  A pattern  *)
(* segment is a literal or a named parameter (":id").                      *)
(***************************************************************************)
Static(seg)  == [kind |-> "static", text |-> seg]
Wild(name)   == [kind |-> "param", text |-> name]
IdParam      == <<"i", "d">>

RouteOf(m, pat, h) == [method |-> m, pattern |-> pat, handler |-> h]

\* The routes in the order main registers them.
Routes ==
    << RouteOf("GET", <<>>, "root"),
       RouteOf("GET", <<Static(ApiSeg), Static(V1Seg), Static(HealthSeg)>>,
               "healthCheck"),
       RouteOf("GET", <<Static(ApiSeg), Static(V1Seg), Static(MoviesSeg),
                        Wild(IdParam)>>, "getMovieByID"),
       RouteOf("GET", <<Static(ApiSeg), Static(V1Seg), Static(MoviesSeg),
                        Static(SearchSeg)>>, "searchMovies"),
       RouteOf("GET", <<Static(ApiSeg), Static(V1Seg), Static(OmdbSeg),
                        Wild(IdParam)>>, "getOMDBMovie") >>

\* A route matches a request when the method is the route's and every path
\* segment equals the literal, or is a non-empty value for a parameter.
Matches(route, method, path) ==
    /\ route.method = method
    /\ Len(route.pattern) = Len(path)
    /\ \A i \in 1..Len(path) :
          IF route.pattern[i].kind = "static"
          THEN path[i] = route.pattern[i].text
          ELSE path[i] # <<>>

\* The router tries a literal child before a parameter child: of two
\* matching routes the one with the literal at the first differing
\* position is taken.
Prefers(a, b) ==
    \E i \in 1..Len(a.pattern) :
       /\ a.pattern[i].kind = "static"
       /\ b.pattern[i].kind = "param"
       /\ \A j \in 1..(i - 1) : a.pattern[j].kind = b.pattern[j].kind

\* Mutant: the first registered matching route wins, so that ":id"
\* shadows the literal "search" registered after it.
RouteFirstRegistered(method, path) ==
    LET m == { i \in DOMAIN Routes : Matches(Routes[i], method, path) }
    IN  IF m = {} THEN 0 ELSE CHOOSE i \in m : \A j \in m : i <= j

\* Index in Routes of the route serving (method, path); 0 when none does.
Route(method, path) ==
    LET m == { i \in DOMAIN Routes : Matches(Routes[i], method, path) }
    IN  IF m = {} THEN 0
        ELSE CHOOSE i \in m : \A j \in m \ {i} : Prefers(Routes[i], Routes[j])

\* c.Param(name) for a request served by route index rt ("" when absent).
Param(rt, path, name) ==
    LET pat == IF rt = 0 THEN <<>> ELSE Routes[rt].pattern
        at  == { i \in DOMAIN pat : pat[i] = Wild(name) }
    IN  IF at = {} THEN <<>> ELSE path[CHOOSE i \in at : TRUE]

\* c.Query("q"): the value, or "" when the parameter is absent.
Query(r) == IF r.hasQ THEN r.q ELSE <<>>

(***************************************************************************)
(* Middleware.  gin.Default() installs Logger and Recovery; main adds the  *)
(* CORS middleware, the request logger and Recovery again.  The chain of a *)
(* request is the middleware followed by the route's handler, or by the    *)
(* engine's 404 handler when no route matches.                             *)
(***************************************************************************)
Middleware ==
    << "Logger", "Recovery", "corsMiddleware", "requestLoggingMiddleware",
       "Recovery" >>

MiddlewareNames == { Middleware[i] : i \in DOMAIN Middleware }

HandlersChain(method, path) ==
    LET rt == Route(method, path)
    IN  Middleware \o << IF rt = 0 THEN "noRoute" ELSE Routes[rt].handler >>

\* Mutant: the CORS middleware sets the status of a preflight request but
\* does not abort the chain.
corsNeverAborts(method) == FALSE

\* corsMiddleware: TRUE when it aborts the chain (c.AbortWithStatus(204)),
\* FALSE when it calls c.Next().
corsMiddleware(method) == method = "OPTIONS"

\* The handlers of the chain that run, in order: every handler calls
\* c.Next() except the CORS middleware when it aborts.
RECURSIVE RunChain(_, _)
RunChain(chain, method) ==
    IF chain = <<>> THEN <<>>
    ELSE IF Head(chain) = "corsMiddleware" /\ corsMiddleware(method)
         THEN << Head(chain) >>
         ELSE << Head(chain) >> \o RunChain(Tail(chain), method)

(***************************************************************************)
(* What a handler does until it blocks or returns: it writes the response  *)
(* (c.JSON) or it calls a backend client and waits for the result.         *)
(***************************************************************************)
Nil    == "nil"
NoBody == [k \in {} |-> TRUE]
NoCall == [client |-> Nil, op |-> "", arg |-> <<>>]

Respond(st, b) == [kind |-> "respond", status |-> st, body |-> b, call |-> NoCall]

CallBackend(cl, o, x) ==
    [kind |-> "call", status |-> 0, body |-> NoBody,
     call |-> [client |-> cl, op |-> o, arg |-> x]]

\* What a backend call returns: (value, nil) or (zero value, err).  The
\* values are opaque to the program; two of them tell a pass-through from
\* a constant.
Returned(v) == [ok |-> TRUE, val |-> v]
Failed      == [ok |-> FALSE, val |-> "error"]
NoResult    == [ok |-> FALSE, val |-> "none"]
Results     == { Returned("recA"), Returned("recB"), Failed }

\* Mutant: the health check reports the secondary source's absence.
healthCheckProbesOmdb(a) ==
    IF a.omdbClient = Nil
    THEN Respond(503, [status |-> "DEGRADED", service |-> "filmigo-api",
                       version |-> "1.0.0", message |-> "OMDB unavailable"])
    ELSE Respond(200, [status |-> "OK", service |-> "filmigo-api",
                       version |-> "1.0.0",
                       message |-> "Filmigo API is running successfully!"])

healthCheck(a) ==
    Respond(200, [status |-> "OK", service |-> "filmigo-api",
                  version |-> "1.0.0",
                  message |-> "Filmigo API is running successfully!"])

\* The handler main registers on "/" (the message without its emoji).
root(a) ==
    Respond(200,
        [message |-> "Welcome to Filmigo API", version |-> "1.0.0",
         description |-> "A powerful REST API for movie data",
         endpoints |->
            [health |-> "GET /api/v1/health",
             movie_by_id |-> "GET /api/v1/movies/{imdb_id}",
             search |-> "GET /api/v1/movies/search?q={query}",
             omdb_movie |-> "GET /api/v1/omdb/{imdb_id}"],
         examples |->
            [get_movie |-> "/api/v1/movies/tt0111161",
             search_movies |-> "/api/v1/movies/search?q=inception",
             omdb_data |-> "/api/v1/omdb/tt0111161",
             health_check |-> "/api/v1/health"]])

\* The engine's handler for a request no route matches.
noRoute(a) == Respond(404, [text |-> "404 page not found"])

\* Mutant: the identifier is checked for containing "tt" anywhere.
getMovieByIDContains(a, id) ==
    IF ~ \E i \in 1..Len(id) : HasPrefix(SubSeq(id, i, Len(id)), tt)
    THEN Respond(400, [error |-> "Invalid IMDB ID format. Must start with 'tt'",
                       example |-> "tt0111161"])
    ELSE CallBackend(a.imdbClient, "GetMovie", id)

\* getMovieByID up to the client's lookup.
getMovieByID(a, id) ==
    IF ~ HasPrefix(id, tt)
    THEN Respond(400, [error |-> "Invalid IMDB ID format. Must start with 'tt'",
                       example |-> "tt0111161"])
    ELSE CallBackend(a.imdbClient, "GetMovie", id)

\* Mutant: a lookup error is reported as an internal error.
getMovieByIDDoneAs500(id, res) ==
    IF ~ res.ok
    THEN Respond(500, [error |-> "Movie not found", id |-> id])
    ELSE Respond(200, [success |-> TRUE, data |-> res.val])

\* Mutant: the handler answers from a record shared between requests, which
\* another request in flight has claimed.
getMovieByIDDoneShared(id, res) ==
    IF ~ res.ok
    THEN Respond(404, [error |-> "Movie not found", id |-> id])
    ELSE Respond(200, [success |-> TRUE,
                       data |-> IF \E t \in Conns : pc[t] = "recv"
                                THEN "stale" ELSE res.val])

\* getMovieByID from the lookup's return on.
getMovieByIDDone(id, res) ==
    IF ~ res.ok
    THEN Respond(404, [error |-> "Movie not found", id |-> id])
    ELSE Respond(200, [success |-> TRUE, data |-> res.val])

\* Mutant: the client is checked before the query.
searchMoviesClientFirst(a, query) ==
    IF a.omdbClient = Nil
    THEN Respond(503, [error |-> "OMDB service unavailable. API key not configured."])
    ELSE IF query = <<>>
    THEN Respond(400, [error |-> "Query parameter 'q' is required",
                       example |-> "/api/v1/movies/search?q=inception"])
    ELSE CallBackend(a.omdbClient, "Search", query)

\* searchMovies up to the client's search.
searchMovies(a, query) ==
    IF query = <<>>
    THEN Respond(400, [error |-> "Query parameter 'q' is required",
                       example |-> "/api/v1/movies/search?q=inception"])
    ELSE IF a.omdbClient = Nil
    THEN Respond(503, [error |-> "OMDB service unavailable. API key not configured."])
    ELSE CallBackend(a.omdbClient, "Search", query)

\* searchMovies from the search's return on.
searchMoviesDone(query, res) ==
    IF ~ res.ok
    THEN Respond(500, [error |-> "Search failed", query |-> query])
    ELSE Respond(200, [success |-> TRUE, query |-> query, results |-> res.val])

\* getOMDBMovie up to the client's lookup.
getOMDBMovie(a, id) ==
    IF a.omdbClient = Nil
    THEN Respond(503, [error |-> "OMDB service unavailable. API key not configured."])
    ELSE CallBackend(a.omdbClient, "GetMovie", id)

\* Mutant: a failed lookup is tried again.
getOMDBMovieDoneRetry(id, res) ==
    IF ~ res.ok /\ \A s \in Conns : Len(calls[s]) < 2
    THEN CallBackend("omdb", "GetMovie", id)
    ELSE Respond(200, [success |-> TRUE, source |-> "omdb", data |-> res.val])

\* Mutant: the failure response of the OMDB lookup carries no error field.
getOMDBMovieDoneBare(id, res) ==
    IF ~ res.ok
    THEN Respond(404, [id |-> id])
    ELSE Respond(200, [success |-> TRUE, source |-> "omdb", data |-> res.val])

\* getOMDBMovie from the lookup's return on.
getOMDBMovieDone(id, res) ==
    IF ~ res.ok
    THEN Respond(404, [error |-> "Movie not found in OMDB", id |-> id])
    ELSE Respond(200, [success |-> TRUE, source |-> "omdb", data |-> res.val])

\* os.Getenv("OMDB_API_KEY")
EnvKeys == { <<>>, <<"k">> }

\* omdb.NewClient(key) is the client library's constructor; it returns a
\* pointer, which the handlers compare with nil.
omdbNewClient(key) == { "omdb", Nil }

NewMovieAPI(key) ==
    { [imdbClient |-> "imdb", omdbClient |-> o, justwatchClient |-> "justwatch"] :
        o \in omdbNewClient(key) }

Init ==
    /\ omdbKey \in EnvKeys
    /\ api \in NewMovieAPI(omdbKey)
    /\ pc = [s \in Conns |-> "idle"]
    /\ req = [s \in Conns |-> NoReq]
    /\ ran = [s \in Conns |-> <<>>]
    /\ calls = [s \in Conns |-> <<>>]
    /\ result = [s \in Conns |-> NoResult]
    /\ status = [s \in Conns |-> 0]
    /\ body = [s \in Conns |-> NoBody]

\* The server reads a request from a connection.
Receive(s, r) ==
    /\ pc[s] = "idle"
    /\ pc' = [pc EXCEPT ![s] = "recv"]
    /\ req' = [req EXCEPT ![s] = r]
    /\ UNCHANGED <<omdbKey, api, ran, calls, result, status, body>>

\* The handler h of the chain, run for request r served by route rt.
Handle(h, a, rt, r) ==
    CASE h = "root"         -> root(a)
      [] h = "healthCheck"  -> healthCheck(a)
      [] h = "getMovieByID" -> getMovieByID(a, Param(rt, r.path, IdParam))
      [] h = "searchMovies" -> searchMovies(a, Query(r))
      [] h = "getOMDBMovie" -> getOMDBMovie(a, Param(rt, r.path, IdParam))
      [] OTHER              -> noRoute(a)

\* The handler h resumed with the result of its backend call.
Resume(h, rt, r, res) ==
    CASE h = "getMovieByID" -> getMovieByIDDone(Param(rt, r.path, IdParam), res)
      [] h = "searchMovies" -> searchMoviesDone(Query(r), res)
      [] OTHER              -> getOMDBMovieDone(Param(rt, r.path, IdParam), res)

\* engine.ServeHTTP: the request is routed and its chain runs, until the
\* response is written or the route's handler blocks in a backend call.
Serve(s) ==
    /\ pc[s] = "recv"
    /\ LET r     == req[s]
           rt    == Route(r.method, r.path)
           trace == RunChain(HandlersChain(r.method, r.path), r.method)
           h     == trace[Len(trace)]
           out   == IF h \in MiddlewareNames
                    THEN Respond(204, NoBody)
                    ELSE Handle(h, api, rt, r)
       IN  /\ ran' = [ran EXCEPT ![s] = trace]
           /\ IF out.kind = "call"
              THEN /\ pc' = [pc EXCEPT ![s] = "call"]
                   /\ calls' = [calls EXCEPT ![s] = Append(@, out.call)]
                   /\ UNCHANGED <<status, body>>
              ELSE /\ pc' = [pc EXCEPT ![s] = "done"]
                   /\ status' = [status EXCEPT ![s] = out.status]
                   /\ body' = [body EXCEPT ![s] = out.body]
                   /\ UNCHANGED calls
    /\ UNCHANGED <<omdbKey, api, req, result>>

\* The backend call of connection s returns res and the handler goes on: it
\* writes the response (no handler of the program calls a backend twice).
BackendReturn(s, res) ==
    /\ pc[s] = "call"
    /\ LET r   == req[s]
           h   == ran[s][Len(ran[s])]
           out == Resume(h, Route(r.method, r.path), r, res)
       IN  IF out.kind = "call"
           THEN /\ calls' = [calls EXCEPT ![s] = Append(@, out.call)]
                /\ UNCHANGED <<pc, status, body>>
           ELSE /\ pc' = [pc EXCEPT ![s] = "done"]
                /\ status' = [status EXCEPT ![s] = out.status]
                /\ body' = [body EXCEPT ![s] = out.body]
                /\ UNCHANGED calls
    /\ result' = [result EXCEPT ![s] = res]
    /\ UNCHANGED <<omdbKey, api, req, ran>>

\* The response is sent and the connection serves its next request.
Close(s) ==
    /\ pc[s] = "done"
    /\ pc' = [pc EXCEPT ![s] = "idle"]
    /\ req' = [req EXCEPT ![s] = NoReq]
    /\ ran' = [ran EXCEPT ![s] = <<>>]
    /\ calls' = [calls EXCEPT ![s] = <<>>]
    /\ result' = [result EXCEPT ![s] = NoResult]
    /\ status' = [status EXCEPT ![s] = 0]
    /\ body' = [body EXCEPT ![s] = NoBody]
    /\ UNCHANGED <<omdbKey, api>>

Next ==
    \E s \in Conns :
       \/ \E r \in Requests : Receive(s, r)
       \/ Serve(s)
       \/ \E res \in Results : BackendReturn(s, res)
       \/ Close(s)

Spec == Init /\ [][Next]_vars

(***************************************************************************)
(* Properties.                                                             *)
(***************************************************************************)
\* The request of connection s has been served at least up to its backend
\* call.
Served(s) == pc[s] \in {"call", "done"}

\* The last handler that ran for the request of connection s.
LastRan(s) == IF ran[s] = <<>> THEN "" ELSE ran[s][Len(ran[s])]

ServedBy(s, h) == Served(s) /\ LastRan(s) = h

\* The last segment of the request's path (the identifier of /movies/{id}
\* and /omdb/{id}), read off the request itself.
LastSeg(s) ==
    IF req[s].path = <<>> THEN <<>> ELSE req[s].path[Len(req[s].path)]

QueryEmpty(s) == ~ req[s].hasQ \/ req[s].q = <<>>

DataHandlers == {"getMovieByID", "searchMovies", "getOMDBMovie"}

ImdbLookups(s) ==
    { i \in DOMAIN calls[s] : calls[s][i].client = api.imdbClient }

\* C1: an identifier that does not start with "tt" is answered 400 by
\* getMovieByID, with an error message and the hint "tt0111161", and no
\* lookup of the IMDB client is made for the request; the handler decides
\* so for every identifier, the empty one included.
C1_InvalidIdRejected ==
    /\ \A s \in Conns :
          (ServedBy(s, "getMovieByID") /\ ~ HasPrefix(LastSeg(s), tt)) =>
             /\ pc[s] = "done"
             /\ status[s] = 400
             /\ "error" \in DOMAIN body[s]
             /\ "example" \in DOMAIN body[s]
             /\ body[s].example = "tt0111161"
             /\ calls[s] = <<>>
    /\ \A id \in AllIds :
          ~ HasPrefix(id, tt) =>
             LET out == getMovieByID(api, id)
             IN  /\ out.kind = "respond"
                 /\ out.status = 400
                 /\ {"error", "example"} \subseteq DOMAIN out.body
                 /\ out.body.example = "tt0111161"

\* C1 happens: an identifier with "tt" in a later position was rejected.
C1_Witness ==
    \E s \in Conns :
       /\ pc[s] = "done"
       /\ LastRan(s) = "getMovieByID"
       /\ req[s].path = MoviePath(<<"x", "t", "t">>)
       /\ status[s] = 400

\* C2: a search whose q is empty or absent is answered 400 and calls no
\* backend client, whether or not the OMDB client is configured.
C2_EmptyQueryRejected ==
    \A s \in Conns :
       (ServedBy(s, "searchMovies") /\ QueryEmpty(s)) =>
          /\ pc[s] = "done"
          /\ status[s] = 400
          /\ "error" \in DOMAIN body[s]
          /\ calls[s] = <<>>

\* C2 happens: a search without q was rejected while the OMDB handle is nil
\* and no key is set.
C2_Witness ==
    \E s \in Conns :
       /\ pc[s] = "done"
       /\ LastRan(s) = "searchMovies"
       /\ ~ req[s].hasQ
       /\ status[s] = 400
       /\ api.omdbClient = Nil
       /\ omdbKey = <<>>

\* C3: when no OMDB API key is set, the operations that depend on the OMDB
\* client answer 503 and the OMDB backend is never called: the OMDB lookup
\* for every identifier, the search for every query that passes its own
\* validation (the empty query is answered 400, see C2).
C3_NoKeyMeans503 ==
    omdbKey = <<>> =>
       \A s \in Conns :
          (\/ ServedBy(s, "getOMDBMovie")
           \/ ServedBy(s, "searchMovies") /\ ~ QueryEmpty(s))
          => /\ pc[s] = "done"
             /\ status[s] = 503
             /\ calls[s] = <<>>

\* C4: for an identifier starting with "tt", getMovieByID looks up exactly
\* that identifier with the IMDB client; a returned record gives 200 with
\* success and the record as data, an error gives 404 with an error field
\* and the identifier; no other status is produced.
C4_LookupDecidesResponse ==
    \A s \in Conns :
       (ServedBy(s, "getMovieByID") /\ HasPrefix(LastSeg(s), tt)) =>
          /\ calls[s] = << [client |-> api.imdbClient, op |-> "GetMovie",
                            arg |-> LastSeg(s)] >>
          /\ pc[s] = "done" =>
                /\ status[s] \in {200, 404}
                /\ result[s].ok =>
                      /\ status[s] = 200
                      /\ body[s] = [success |-> TRUE, data |-> result[s].val]
                /\ ~ result[s].ok =>
                      /\ status[s] = 404
                      /\ "error" \in DOMAIN body[s]
                      /\ "id" \in DOMAIN body[s]
                      /\ body[s].id = LastSeg(s)

\* C4 happens: one lookup returned a record and another failed.
C4_Witness ==
    \E s, t \in Conns :
       /\ pc[s] = "done" /\ pc[t] = "done"
       /\ LastRan(s) = "getMovieByID" /\ LastRan(t) = "getMovieByID"
       /\ result[s] = Returned("recB") /\ status[s] = 200
       /\ result[t] = Failed /\ status[t] = 404

\* The request of connection s passes the validation and configuration
\* checks of its operation.
PassesChecks(s) ==
    \/ LastRan(s) = "getMovieByID" /\ HasPrefix(LastSeg(s), tt)
    \/ LastRan(s) = "searchMovies" /\ ~ QueryEmpty(s) /\ api.omdbClient # Nil
    \/ LastRan(s) = "getOMDBMovie" /\ api.omdbClient # Nil

C5_Inv ==
    \A s \in Conns :
       /\ Len(calls[s]) <= 1
       /\ (Served(s) /\ PassesChecks(s)) => Len(calls[s]) = 1
       /\ (pc[s] = "done" /\ calls[s] # <<>> /\ ~ result[s].ok) =>
             /\ status[s] \in {404, 500}
             /\ "error" \in DOMAIN body[s]

C5_Step ==
    \A s \in Conns :
       /\ pc[s] = "call" => (pc'[s] \in {"call", "done"} /\ calls'[s] = calls[s])
       /\ (pc[s] = "call" /\ result'[s] # result[s]) => pc'[s] = "done"
       /\ (pc[s] = "done" /\ pc'[s] = "done") =>
             (calls'[s] = calls[s] /\ status'[s] = status[s])

\* C5: a request to getMovieByID, searchMovies or getOMDBMovie that passes
\* its checks makes exactly one backend call and no request makes more than
\* one; once the call has returned, an error included, the response is
\* written and no second call follows.
C5_ExactlyOneCall == [] C5_Inv /\ [][C5_Step]_vars

\* C5 happens: a backend call failed and its request was answered with the
\* single call made.
C5_Witness ==
    \E s \in Conns :
       /\ pc[s] = "done"
       /\ LastRan(s) = "getOMDBMovie"
       /\ result[s] = Failed
       /\ Len(calls[s]) = 1
       /\ status[s] = 404

\* C6: every response of the three data operations is a success envelope
\* (success = true, the payload field, status 200) or a failure envelope
\* (status 400, 404, 500 or 503 and an error field), never both and never
\* neither.
C6_Envelope ==
    \A s \in Conns :
       (pc[s] = "done" /\ LastRan(s) \in DataHandlers) =>
          LET b       == body[s]
              success == "success" \in DOMAIN b /\ b.success = TRUE
              failure == "error" \in DOMAIN b
              payload == IF LastRan(s) = "searchMovies" THEN "results" ELSE "data"
          IN  /\ success => (status[s] = 200 /\ payload \in DOMAIN b)
              /\ status[s] \in {400, 404, 500, 503} => failure
              /\ status[s] \in {200, 400, 404, 500, 503}
              /\ status[s] = 200 => success
              /\ ~ (success /\ failure)
              /\ success \/ failure

\* C6 happens: a search succeeded and an OMDB lookup failed.
C6_Witness ==
    \E s, t \in Conns :
       /\ pc[s] = "done" /\ pc[t] = "done"
       /\ LastRan(s) = "searchMovies" /\ status[s] = 200
       /\ "results" \in DOMAIN body[s]
       /\ LastRan(t) = "getOMDBMovie" /\ status[t] = 404

\* C7: a GET of /api/v1/health is answered 200 with the fixed body, without
\* any backend call, whatever the OMDB handle is and whatever the other
\* requests do.
C7_HealthFixed ==
    \A s \in Conns :
       (Served(s) /\ req[s].method = "GET" /\ req[s].path = HealthPath) =>
          /\ pc[s] = "done"
          /\ status[s] = 200
          /\ body[s] = [status |-> "OK", service |-> "filmigo-api",
                        version |-> "1.0.0",
                        message |-> "Filmigo API is running successfully!"]
          /\ calls[s] = <<>>

\* C7 happens: the health check answered while the OMDB handle is nil and
\* another request's backend call had failed.
C7_Witness ==
    \E s, t \in Conns :
       /\ pc[s] = "done" /\ LastRan(s) = "healthCheck" /\ status[s] = 200
       /\ api.omdbClient = Nil
       /\ pc[t] = "done" /\ result[t] = Failed /\ calls[t] # <<>>

\* C8: an OPTIONS request, on any path, is answered 204 by the CORS
\* middleware, which aborts the chain: no route handler runs and no backend
\* is called; for any other method the chain runs on to its last handler.
C8_OptionsShortCircuit ==
    \A s \in Conns :
       Served(s) =>
          IF req[s].method = "OPTIONS"
          THEN /\ pc[s] = "done"
               /\ status[s] = 204
               /\ LastRan(s) = "corsMiddleware"
               /\ \A i \in DOMAIN ran[s] : ran[s][i] \in MiddlewareNames
               /\ calls[s] = <<>>
          ELSE /\ Len(ran[s]) = Len(Middleware) + 1
               /\ ran[s][4] = "requestLoggingMiddleware"
               /\ LastRan(s) \notin MiddlewareNames

\* C8 happens: a preflight request for a registered movie path got 204.
C8_Witness ==
    \E s \in Conns :
       /\ pc[s] = "done"
       /\ req[s].method = "OPTIONS"
       /\ req[s].path = MoviePath(<<"t", "t", "1">>)
       /\ status[s] = 204

\* Everything the server holds for connection s.
ConnState(s) ==
    <<pc[s], req[s], ran[s], calls[s], result[s], status[s], body[s]>>

C9_Step ==
    /\ api' = api
    /\ omdbKey' = omdbKey
    /\ \A s, t \in Conns :
          s # t => (ConnState(s)' = ConnState(s) \/ ConnState(t)' = ConnState(t))
    /\ \A s \in Conns :
          (pc[s] = "done" /\ pc'[s] = "done") => ConnState(s)' = ConnState(s)

C9_Inv ==
    \A s, t \in Conns :
       (/\ pc[s] = "done" /\ pc[t] = "done"
        /\ req[s] = req[t]
        /\ result[s] = result[t])
       => (status[s] = status[t] /\ body[s] = body[t])

\* C9: under every interleaving the client handles stay what NewMovieAPI
\* made them, a step of one request leaves every other request's state and
\* response untouched, and two requests with the same parameters and the
\* same backend result get the same response.
C9_Isolation == [] C9_Inv /\ [][C9_Step]_vars

\* C9 happens: two lookups of the same identifier were in flight together
\* and both were answered from the same backend result.
C9_Witness ==
    /\ pc[1] = "done" /\ pc[2] = "done"
    /\ req[1] = req[2]
    /\ LastRan(1) = "getMovieByID"
    /\ result[1] = Returned("recA") /\ result[2] = Returned("recA")
    /\ status[1] = 200

\* C10: a GET of /api/v1/movies/search is served by searchMovies, never by
\* getMovieByID (no invalid-identifier 400, no IMDB lookup), and a GET of
\* /api/v1/movies/{id} for any other segment is served by getMovieByID.
C10_RouteDispatch ==
    \A s \in Conns :
       (Served(s) /\ req[s].method = "GET" /\ Len(req[s].path) = 4
         /\ SubSeq(req[s].path, 1, 3) = <<ApiSeg, V1Seg, MoviesSeg>>) =>
          IF LastSeg(s) = SearchSeg
          THEN /\ LastRan(s) = "searchMovies"
               /\ ImdbLookups(s) = {}
               /\ ~ (/\ pc[s] = "done" /\ status[s] = 400
                     /\ "example" \in DOMAIN body[s]
                     /\ body[s].example = "tt0111161")
          ELSE /\ LastRan(s) = "getMovieByID"
               /\ \A i \in DOMAIN calls[s] : calls[s][i].op # "Search"

\* C10 happens: a search with a query was served by searchMovies while a
\* proper prefix of "search" was taken as an identifier by getMovieByID.
C10_Witness ==
    \E s, t \in Conns :
       /\ Served(s) /\ req[s] = Req("GET", SearchPath, TRUE, <<"i", "n">>)
       /\ LastRan(s) = "searchMovies"
       /\ pc[t] = "done" /\ req[t].path = MoviePath(<<"s", "e", "a">>)
       /\ LastRan(t) = "getMovieByID" /\ status[t] = 400

=============================================================================
